---------------------------- MODULE Spec2Model ----------------------------
(***************************************************************************)
(* HuggingFace Dataset Explorer (Streamlit template).                      *)
(*                                                                         *)
(* A model of app/main.py (the DatasetExplorer session), of                *)
(* app/utils/huggingface_client.py (the loader, the datetime heuristic,    *)
(* get_column_stats) and of app/components/column_analyzer.py (the column  *)
(* detail view).                                                           *)
(*                                                                         *)
(* Data representation.                                                    *)
(*   cell    <<tag, payload>>, payload always an integer:                  *)
(*             <<"null", 0>>   None / NaN / NaT                            *)
(*             <<"num",  n>>   the number n (int64 or float64 column)      *)
(*             <<"bool", b>>   False (0) / True (1)                        *)
(*             <<"str",  k>>   the k-th string of the string table below   *)
(*             <<"ts",   h>>   a timestamp, h hours after 2024-01-01 00:00 *)
(*             <<"td",   h>>   a timedelta of h hours                      *)
(*             <<"obj",  k>>   a nested value (list / dict / ndarray), as  *)
(*                             datasets' to_pandas() leaves it in an       *)
(*                             object column: not hashable                 *)
(*   column  [name, kind, values]: name a sequence of characters, kind the *)
(*           pandas dtype (the column's declared kind), values a sequence  *)
(*           of cells                                                      *)
(*   frame   [is_none, columns]: a DataFrame (all columns of one length),  *)
(*           or Python's None                                              *)
(*   float   [nan, num, den]: NaN, or the exact rational num / den         *)
(***************************************************************************)
EXTENDS Integers, Sequences, FiniteSets, TLC

VARIABLES
    df,            \* DatasetExplorer.df at the end of the last script run
    dataset_name,  \* DatasetExplorer.dataset_name at the end of that run
    load_button,   \* st.button's value in the last script run
    load_error,    \* what load_dataset / to_pandas raised in that run, "" if nothing
    ui,            \* the st.* elements the last run (or call) emitted, in order
    raised,        \* the exception that escaped the last run (or call), "" if none
    cache,         \* st.cache_data of load_hf_dataset: the (name, split) held
    arg,           \* the DataFrame handed to the function under study
    column,        \* the column selected in it (its position), 0 if none
    ret_df,        \* the DataFrame _process_datetime_columns returned
    stats,         \* the dict get_column_stats returned
    viz,           \* the widget values create_visualizations ran with
    called         \* the function applied to arg, "" before any call

vars == <<df, dataset_name, load_button, load_error, ui, raised, cache, arg, column, ret_df, stats, viz,
         called>>

-----------------------------------------------------------------------------
(* Bounds of the model.                                                    *)

\* Rows of a column in the exhaustively enumerated inputs of the analyzer.
MaxRows == 3
\* Rows of a frame handed to the datetime heuristic.
MaxHeurRows == 2
\* Distinct strings in the long textual columns (more than the 10 listed).
MaxDistinct == 11
\* Extra repetitions of the first string in a long textual column.
MaxRepeat == 3
\* Trailing nulls in a long textual column.
MaxNulls == 1
\* Bits of a float's significand (53 in the float64 of the program).
MantissaBits == 5
\* Rows beyond the 5000 of the scatter plot in the long frames.
MaxExtraRows == 2
\* Rows with a null in the long frames.
MaxNullRows == 2
\* Columns of the short frames handed to the visualizer.
MaxVizColumns == 3

-----------------------------------------------------------------------------
(* Cells.                                                                  *)

Null == <<"null", 0>>
Num(n) == <<"num", n>>
Bool(b) == <<"bool", b>>
Str(k) == <<"str", k>>
Ts(h) == <<"ts", h>>
Td(h) == <<"td", h>>
Obj(k) == <<"obj", k>>

IsNull(c) == c[1] = "null"

(* The string table.  1: "2024-01-01", 2: "2024-01-02", 3: "2024-01-03"    *)
(* (one format, so that pandas' choice of a format from the first value    *)
(* plays no part); every other index is a string that is no date ("A",     *)
(* "B", "n/a", ...).                                                       *)
DateStrings == {1, 2, 3}

\* The timestamp a date string parses to.
ParseDate(k) == (k - 1) * 24

\* 1970-01-01 00:00 in hours relative to 2024-01-01 00:00 (19723 days).
EpochHour == -(19723 * 24)

-----------------------------------------------------------------------------
(* Sequences.                                                              *)

Range(s) == {s[i] : i \in 1..Len(s)}

RECURSIVE SeqsUpTo(_, _)
SeqsUpTo(S, n) ==
    IF n = 0 THEN {<<>>}
    ELSE LET shorter == SeqsUpTo(S, n - 1)
         IN  shorter \cup {Append(s, x) : s \in {t \in shorter : Len(t) = n - 1}, x \in S}

SeqsOfLen(S, n) == {s \in SeqsUpTo(S, n) : Len(s) = n}

RECURSIVE SumSeq(_)
SumSeq(s) == IF s = <<>> THEN 0 ELSE s[1] + SumSeq(Tail(s))

\* Series.dropna(): the non-null cells, in order.
dropna(values) == SelectSeq(values, LAMBDA c : ~IsNull(c))

\* Series.isna().sum()
isna_sum(values) == Len(values) - Len(dropna(values))


-----------------------------------------------------------------------------
(* Floats: NaN or an exact rational.                                       *)

NaN == [nan |-> TRUE, num |-> 0, den |-> 1]
Rat(n, d) == [nan |-> FALSE, num |-> n, den |-> d]

\* a <= b on floats; any comparison with NaN is false, as in IEEE 754.
FLe(a, b) == ~a.nan /\ ~b.nan /\ a.num * b.den <= b.num * a.den

\* num / den (den > 0) rounded to the nearest integer, ties to even.
RoundHalfEven(num, den) ==
    LET q == num \div den
        r == num % den
    IN  IF 2 * r < den THEN q
        ELSE IF 2 * r > den THEN q + 1
        ELSE IF q % 2 = 0 THEN q ELSE q + 1

\* f"{x:.2f}": the value in hundredths, or "nan".
Fmt2(x) == IF x.nan THEN NaN ELSE Rat(RoundHalfEven(100 * x.num, x.den), 100)

\* The numeric value of a cell of a numeric column (True is 1, False is 0).
NumOf(c) == c[2]

RECURSIVE Insert(_, _)
Insert(x, s) ==
    IF s = <<>> THEN <<x>>
    ELSE IF x <= s[1] THEN <<x>> \o s
    ELSE <<s[1]>> \o Insert(x, Tail(s))

RECURSIVE SortAsc(_)
SortAsc(s) == IF s = <<>> THEN <<>> ELSE Insert(s[1], SortAsc(Tail(s)))

\* The non-null numbers of a column, ascending.
SortedNums(values) ==
    LET clean == dropna(values)
    IN  SortAsc([i \in 1..Len(clean) |-> NumOf(clean[i])])

RECURSIVE Pow2(_)
Pow2(k) == IF k = 0 THEN 1 ELSE 2 * Pow2(k - 1)

(* The float nearest to num / den (den > 0), ties to even: a significand   *)
(* of MantissaBits bits times a power of two.                              *)
FRoundPos(num, den) ==
    LET P == MantissaBits
        lo == Pow2(P - 1)
        hi == Pow2(P)
        \* e >= 0: num / (den * 2^e) in [lo, hi);  e < 0: num * 2^-e / den
        up == {e \in 0..(2 * P) : lo * den * Pow2(e) <= num /\ num < hi * den * Pow2(e)}
        down == {e \in 1..(2 * P) : lo * den <= num * Pow2(e) /\ num * Pow2(e) < hi * den}
    IN  IF up # {}
        THEN LET e == CHOOSE x \in up : TRUE
             IN  Rat(RoundHalfEven(num, den * Pow2(e)) * Pow2(e), 1)
        ELSE LET e == CHOOSE x \in down : TRUE
             IN  Rat(RoundHalfEven(num * Pow2(e), den), Pow2(e))

FRound(num, den) ==
    IF num = 0 THEN Rat(0, 1)
    ELSE IF num > 0 THEN FRoundPos(num, den)
    ELSE LET r == FRoundPos(-num, den) IN Rat(-r.num, r.den)

\* a + b in float arithmetic, for floats that are whole numbers (so is
\* the result).
FAdd(a, b) == LET r == FRound(a + b, 1) IN r.num \div r.den

\* values.sum(): the running sum, left to right, rounded at every step.
RECURSIVE FSum(_, _)
FSum(s, acc) == IF s = <<>> THEN acc ELSE FSum(Tail(s), FAdd(acc, s[1]))

\* The non-null numbers of a column, in the column's order.
Nums(values) ==
    LET clean == dropna(values)
    IN  [i \in 1..Len(clean) |-> NumOf(clean[i])]

\* Series.mean(): nulls skipped, the float sum divided by the count; NaN
\* when nothing is left.
mean(values) ==
    LET s == Nums(values)
    IN  IF Len(s) = 0 THEN NaN ELSE FRound(FSum(s, 0), Len(s))

\* Series.min() / Series.max(): nulls skipped; NaN when nothing is left.
min(values) ==
    LET s == SortedNums(values)
    IN  IF Len(s) = 0 THEN NaN ELSE Rat(s[1], 1)

max(values) ==
    LET s == SortedNums(values)
    IN  IF Len(s) = 0 THEN NaN ELSE Rat(s[Len(s)], 1)

\* A quantile whose interpolation takes the numerator of the fraction of
\* the index for the fraction itself.
quantile_overshoot(values, qn, qd) ==
    LET s == SortedNums(values)
        n == Len(s)
        pos == (n - 1) * qn
        i == pos \div qd
        fr == pos % qd
    IN  IF n = 0 THEN NaN
        ELSE IF fr = 0 THEN Rat(s[i + 1], 1)
        ELSE FRound(s[i + 1] + fr * (s[i + 2] - s[i + 1]), 1)

(* Series.quantile(qn / qd), interpolation "linear": with the n non-null   *)
(* values sorted, the value at the fractional index (n - 1) * q, linearly  *)
(* interpolated between its two neighbours (the result rounded to a        *)
(* float); NaN when nothing is left.                                       *)
quantile(values, qn, qd) ==
    LET s == SortedNums(values)
        n == Len(s)
        pos == (n - 1) * qn
        i == pos \div qd
        fr == pos % qd
    IN  IF n = 0 THEN NaN
        ELSE IF fr = 0 THEN Rat(s[i + 1], 1)
        ELSE FRound(s[i + 1] * qd + fr * (s[i + 2] - s[i + 1]), qd)

\* Series.median()
median(values) == quantile(values, 1, 2)

(* Series.std(), ddof = 1: NaN with fewer than two non-null values.  The   *)
(* float returned carries the variance, the SQUARE of the deviation,       *)
(* (n * sum(x^2) - sum(x)^2) / (n * (n - 1)), exactly: the root is not     *)
(* taken, here or where the value is displayed.                            *)
std(values) ==
    LET s == SortedNums(values)
        n == Len(s)
        sq == [i \in 1..n |-> s[i] * s[i]]
    IN  IF n < 2 THEN NaN
        ELSE Rat(n * SumSeq(sq) - SumSeq(s) * SumSeq(s), n * (n - 1))

-----------------------------------------------------------------------------
(* pandas.api.types predicates, on a column.                               *)

\* Integer, unsigned, float and complex dtypes, and bool (np.bool_ counts
\* as numeric for pandas); datetime64 and timedelta64 do not.
is_numeric_dtype(col) == col.kind \in {"int64", "float64", "bool"}

\* The string dtype; an object column only if every element is a str.
is_string_dtype(col) ==
    \/ col.kind = "string"
    \/ col.kind = "object" /\ \A i \in 1..Len(col.values) : col.values[i][1] = "str"

is_object_dtype(col) == col.kind = "object"

is_datetime64_any_dtype(col) == col.kind \in {"datetime64[ns]", "datetime64[ns, UTC]"}

\* A list, dict or ndarray cell cannot be hashed: nunique() and
\* value_counts() raise TypeError on a column that holds one.
Unhashable(values) == \E i \in 1..Len(values) : values[i][1] = "obj"

-----------------------------------------------------------------------------
(* Series.value_counts(): the distinct non-null values with their counts,  *)
(* most frequent first; equal counts keep the order of first occurrence.   *)

RECURSIVE Distinct(_)
Distinct(s) ==
    IF s = <<>> THEN <<>>
    ELSE LET rest == Distinct(SelectSeq(Tail(s), LAMBDA c : c # s[1]))
         IN  <<s[1]>> \o rest

CountOf(values, v) == Cardinality({i \in 1..Len(values) : values[i] = v})

RECURSIVE SortByCount(_)
SortByCount(pairs) ==
    IF pairs = <<>> THEN <<>>
    ELSE LET best == CHOOSE i \in 1..Len(pairs) :
                        /\ \A j \in 1..Len(pairs) : pairs[j][2] <= pairs[i][2]
                        /\ \A j \in 1..(i - 1) : pairs[j][2] < pairs[i][2]
             rest == [j \in 1..(Len(pairs) - 1) |->
                        IF j < best THEN pairs[j] ELSE pairs[j + 1]]
         IN  <<pairs[best]>> \o SortByCount(rest)

\* The distinct values with their counts in the order of first occurrence.
value_counts_unsorted(values) ==
    LET d == Distinct(dropna(values))
    IN  [i \in 1..Len(d) |-> <<d[i], CountOf(values, d[i])>>]

value_counts(values) ==
    LET d == Distinct(dropna(values))
    IN  SortByCount([i \in 1..Len(d) |-> <<d[i], CountOf(values, d[i])>>])

\* Series.nunique()
nunique(values) == Len(Distinct(dropna(values)))

\* .head(n)
head(s, n) == SubSeq(s, 1, IF Len(s) < n THEN Len(s) ELSE n)

-----------------------------------------------------------------------------
(* Streamlit output and Python control flow.  A function's effect is the   *)
(* sequence of st.* elements it emitted and the exception that escaped it  *)
(* ("" when it returned).                                                  *)

Elem(w, tag, val) == [w |-> w, tag |-> tag, val |-> val]
Out(elems, exc) == [ui |-> elems, exc |-> exc]
Returns(elems) == Out(elems, "")

\* a; b  -- b runs only if a returned.  (x and y stand for the values of
\* a and b, each computed once.)
Then(a, b) ==
    CHOOSE r \in { IF x.exc # "" THEN x
                   ELSE CHOOSE q \in {Out(x.ui \o y.ui, y.exc) : y \in {b}} : TRUE
                   : x \in {a} } : TRUE

\* f"{x:.1f}" and .round(1): the value in tenths.
Fmt1(x) == IF x.nan THEN NaN ELSE Rat(RoundHalfEven(10 * x.num, x.den), 10)

\* len(df): the rows of a frame.
len(f) == IF f.columns = <<>> THEN 0 ELSE Len(f.columns[1].values)

\* df.empty: no column or no row.
empty(f) == f.columns = <<>> \/ len(f) = 0

-----------------------------------------------------------------------------
(* app/components/column_analyzer.py                                       *)

\* value_counts().head(10) of the detail view.
TopDetail == 10
\* value_counts().head(15) of the detail view's bar chart.
TopBarChart == 15
\* df[[column]].head(min(20, len(df)))
SampleSize == 20

_show_basic_info(f, c) ==
    LET col == f.columns[c]
        total_count == Len(col.values)
        null_count == isna_sum(col.values)
        null_pct == Rat(null_count * 100, total_count)
        title == <<Elem("write", "basic_info", <<>>)>>
        lines == << Elem("write", "dtype", col.kind),
                    Elem("write", "total_count", total_count),
                    Elem("write", "unique_count", nunique(col.values)),
                    Elem("write", "null_count", <<null_count, Fmt1(null_pct)>>) >>
        \* completeness = 100 - null_pct
        completeness == Rat(100 * total_count - null_count * 100, total_count)
        badge == IF null_count = 0 THEN "success"
                 ELSE IF FLe(Rat(90, 1), completeness) THEN "info"
                 ELSE "warning"
    IN  IF Unhashable(col.values)
        THEN Out(title, "TypeError")          \* df[column].nunique()
        ELSE Returns(title \o lines \o <<Elem(badge, "completeness", Fmt1(completeness))>>)

(* quantile_raises: whether Series.quantile raises on a bool column        *)
(* (numpy's percentile subtracts neighbours, which numpy refuses for       *)
(* booleans: TypeError); a property of the installed pandas/numpy.         *)
_show_numeric_stats(f, c, quantile_raises) ==
    LET col == f.columns[c]
        title == <<Elem("write", "numeric_stats", <<>>)>>
        clean_data == dropna(col.values)
        lines == << Elem("write", "mean", Fmt2(mean(clean_data))),
                    Elem("write", "std", std(clean_data)),
                    Elem("write", "min", Fmt2(min(clean_data))),
                    Elem("write", "q25", Fmt2(quantile(clean_data, 1, 4))),
                    Elem("write", "median", Fmt2(quantile(clean_data, 1, 2))),
                    Elem("write", "q75", Fmt2(quantile(clean_data, 3, 4))),
                    Elem("write", "max", Fmt2(max(clean_data))) >>
    IN  IF Len(clean_data) = 0
        THEN Returns(title \o <<Elem("warning", "all_null", <<>>)>>)
        ELSE IF col.kind = "bool" /\ quantile_raises
        THEN Out(title, "TypeError")
        ELSE Returns(title \o lines)

\* One row of the frequency table: value, count, count / len(df) * 100
\* rounded to one decimal.
FreqRow(pair, n) == <<pair[1], pair[2], Fmt1(Rat(pair[2] * 100, n))>>

\* A frequency table whose percentages are of the non-null rows.
_show_categorical_stats_of_non_null(f, c) ==
    LET col == f.columns[c]
        title == <<Elem("write", "top_values", <<>>)>>
        counts == head(value_counts(col.values), TopDetail)
        freq_df == [i \in 1..Len(counts) |-> FreqRow(counts[i], Len(dropna(col.values)))]
    IN  IF Unhashable(col.values)
        THEN Out(title, "TypeError")
        ELSE IF Len(counts) = 0
        THEN Returns(title \o <<Elem("warning", "no_values", <<>>)>>)
        ELSE Returns(title \o <<Elem("dataframe", "freq_df", freq_df)>>)

_show_categorical_stats(f, c) ==
    LET col == f.columns[c]
        title == <<Elem("write", "top_values", <<>>)>>
        counts == head(value_counts(col.values), TopDetail)
        freq_df == [i \in 1..Len(counts) |-> FreqRow(counts[i], len(f))]
    IN  IF Unhashable(col.values)
        THEN Out(title, "TypeError")          \* df[column].value_counts()
        ELSE IF Len(counts) = 0
        THEN Returns(title \o <<Elem("warning", "no_values", <<>>)>>)
        ELSE Returns(title \o <<Elem("dataframe", "freq_df", freq_df)>>)

\* The days of a difference of h hours, rounded to the nearest day.
Days_rounded(h) == RoundHalfEven(h, 24)

\* Timedelta.days of a difference of h hours: whole days, rounded down.
Days(h) == h \div 24

_show_datetime_stats(f, c) ==
    LET col == f.columns[c]
        title == <<Elem("write", "datetime_stats", <<>>)>>
        clean_data == dropna(col.values)
        lo == min(clean_data).num
        hi == max(clean_data).num
        lines == << Elem("write", "earliest", lo),
                    Elem("write", "latest", hi),
                    Elem("write", "span_days", Days(hi - lo)) >>
    IN  IF Len(clean_data) = 0
        THEN Returns(title \o <<Elem("warning", "all_null", <<>>)>>)
        ELSE Returns(title \o lines)

_show_type_specific_stats(f, c, quantile_raises) ==
    LET col == f.columns[c]
    IN  IF is_numeric_dtype(col) THEN _show_numeric_stats(f, c, quantile_raises)
        ELSE IF is_string_dtype(col) \/ is_object_dtype(col) THEN _show_categorical_stats(f, c)
        ELSE IF is_datetime64_any_dtype(col) THEN _show_datetime_stats(f, c)
        ELSE Returns(<< Elem("write", "stats", <<>>),
                        Elem("info", "not_supported", <<>>) >>)

_plot_histogram(values) == Returns(<<Elem("altair_chart", "histogram", Len(values))>>)

_plot_bar_chart(values) ==
    IF Unhashable(values)
    THEN Out(<<>>, "TypeError")               \* df[column].value_counts()
    ELSE Returns(<<Elem("altair_chart", "bar_chart",
                        head(value_counts(values), TopBarChart))>>)

_plot_timeline(values) == Returns(<<Elem("altair_chart", "timeline", Len(values))>>)

_show_column_visualization(f, c) ==
    LET col == f.columns[c]
        title == Returns(<<Elem("write", "visualization", <<>>)>>)
        clean == dropna(col.values)
    IN  IF Len(clean) = 0
        THEN Then(title, Returns(<<Elem("warning", "all_null_no_chart", <<>>)>>))
        ELSE IF is_numeric_dtype(col) THEN Then(title, _plot_histogram(clean))
        ELSE IF is_string_dtype(col) \/ is_object_dtype(col) THEN Then(title, _plot_bar_chart(clean))
        ELSE IF is_datetime64_any_dtype(col) THEN Then(title, _plot_timeline(clean))
        ELSE Then(title, Returns(<<Elem("info", "no_chart", <<>>)>>))

\* c: the column st.selectbox returned, as its position in df.columns.
analyze_columns(f, c, quantile_raises) ==
    LET header == Returns(<<Elem("subheader", "column_analysis", <<>>)>>)
        sample_size == IF len(f) < SampleSize THEN len(f) ELSE SampleSize
        sample == Returns(<< Elem("write", "sample", <<>>),
                             Elem("dataframe", "sample", sample_size) >>)
    IN  IF empty(f)
        THEN Then(header, Returns(<<Elem("warning", "empty_df", <<>>)>>))
        ELSE IF f.columns[c].name = <<>>      \* if not column: return
        THEN header
        ELSE Then(header,
             Then(_show_basic_info(f, c),
             Then(_show_type_specific_stats(f, c, quantile_raises),
             Then(_show_column_visualization(f, c), sample))))

-----------------------------------------------------------------------------
(* app/utils/huggingface_client.py: get_column_stats                       *)

\* x / n * 100 in numpy arithmetic: 0 / 0 is NaN (a warning, no exception).
Pct(x, n) == IF n = 0 THEN NaN ELSE Rat(x * 100, n)

(* The dict returned, as a record whose fields are the dict's keys, and    *)
(* the exception raised instead ("" if none).                              *)
get_column_stats(f, c, quantile_raises) ==
    LET col == f.columns[c]
        basic == [ column |-> col.name,
                   dtype |-> col.kind,
                   count |-> Len(col.values),
                   unique |-> nunique(col.values),
                   null_count |-> isna_sum(col.values),
                   null_pct |-> Pct(isna_sum(col.values), Len(col.values)) ]
        numeric == [ mean |-> mean(col.values),
                     std |-> std(col.values),
                     min |-> min(col.values),
                     max |-> max(col.values),
                     median |-> median(col.values),
                     q25 |-> quantile(col.values, 1, 4),
                     q75 |-> quantile(col.values, 3, 4) ]
    IN  IF Unhashable(col.values)
        THEN [val |-> <<>>, exc |-> "TypeError"]          \* df[column].nunique()
        ELSE IF ~is_numeric_dtype(col)
        THEN [val |-> basic, exc |-> ""]
        ELSE IF col.kind = "bool" /\ Len(col.values) > 0 /\ quantile_raises
        THEN [val |-> <<>>, exc |-> "TypeError"]
        ELSE [val |-> numeric @@ basic, exc |-> ""]       \* stats.update(...)

-----------------------------------------------------------------------------
(* app/utils/huggingface_client.py: _process_datetime_columns              *)

UpperCase == << "A", "B", "C", "D", "E", "F", "G", "H", "I", "J", "K", "L", "M",
                "N", "O", "P", "Q", "R", "S", "T", "U", "V", "W", "X", "Y", "Z" >>
LowerCase == << "a", "b", "c", "d", "e", "f", "g", "h", "i", "j", "k", "l", "m",
                "n", "o", "p", "q", "r", "s", "t", "u", "v", "w", "x", "y", "z" >>

\* str.lower()
lower(name) ==
    [i \in 1..Len(name) |->
        IF \E k \in 1..26 : UpperCase[k] = name[i]
        THEN LowerCase[CHOOSE k \in 1..26 : UpperCase[k] = name[i]]
        ELSE name[i]]

\* pattern in text
Contains(text, pattern) ==
    \E i \in 0..(Len(text) - Len(pattern)) :
        SubSeq(text, i + 1, i + Len(pattern)) = pattern

date_patterns ==
    << <<"d", "a", "t", "e">>,
       <<"t", "i", "m", "e">>,
       <<"t", "i", "m", "e", "s", "t", "a", "m", "p">>,
       <<"_", "a", "t">>,
       <<"_", "d", "a", "t", "e">>,
       <<"_", "t", "i", "m", "e">> >>

\* A match of the patterns against the name as it is written.
LooksLikeDate_case_sensitive(name) ==
    \E p \in 1..Len(date_patterns) : Contains(name, date_patterns[p])

\* any(pattern in col_lower for pattern in date_patterns)
LooksLikeDate(name) ==
    \E p \in 1..Len(date_patterns) : Contains(lower(name), date_patterns[p])

(* pd.to_datetime of one cell, errors="coerce".  A number counts           *)
(* nanoseconds since 1970-01-01: every number of the model is less than an *)
(* hour of them.  What cannot be parsed becomes NaT.                       *)
ToDatetimeCell(c) ==
    CASE c[1] = "ts" -> c
      [] c[1] = "num" -> Ts(IF c[2] >= 0 THEN EpochHour ELSE EpochHour - 1)
      [] c[1] = "str" /\ c[2] \in DateStrings -> Ts(ParseDate(c[2]))
      [] OTHER -> Null

\* pd.to_datetime refuses bool and timedelta64 columns whatever errors= is:
\* TypeError("dtype ... cannot be converted to datetime64[ns]").
ToDatetimeRaises(col) == col.kind \in {"bool", "timedelta64[ns]"}

to_datetime(col) ==
    [ name |-> col.name,
      kind |-> IF is_datetime64_any_dtype(col) THEN col.kind ELSE "datetime64[ns]",
      values |-> [i \in 1..Len(col.values) |-> ToDatetimeCell(col.values[i])] ]

\* A loop body whose pd.to_datetime raises on the first value it cannot
\* parse (errors="raise"): the except clause leaves the column as it was.
ProcessColumn_errors_raise(col) ==
    IF LooksLikeDate(col.name)
    THEN IF ToDatetimeRaises(col)
            \/ \E i \in 1..Len(col.values) :
                  ~IsNull(col.values[i]) /\ IsNull(ToDatetimeCell(col.values[i]))
         THEN [col |-> col, exc |-> ""]
         ELSE [col |-> to_datetime(col), exc |-> ""]
    ELSE [col |-> col, exc |-> ""]

(* The body of the for loop for one column: the column afterwards and the  *)
(* exception that leaves the loop body ("" if none).  The try/except       *)
(* around pd.to_datetime swallows every exception (continue).              *)
ProcessColumn(col) ==
    IF LooksLikeDate(col.name)
    THEN IF ToDatetimeRaises(col)
         THEN [col |-> col, exc |-> ""]        \* except Exception: continue
         ELSE [col |-> to_datetime(col), exc |-> ""]
    ELSE [col |-> col, exc |-> ""]

\* for col in df.columns, from position i on.
RECURSIVE ProcessFrom(_, _)
ProcessFrom(columns, i) ==
    IF i > Len(columns) THEN [columns |-> columns, exc |-> ""]
    ELSE LET step == ProcessColumn(columns[i])
         IN  IF step.exc # ""
             THEN [columns |-> columns, exc |-> step.exc]
             ELSE ProcessFrom([columns EXCEPT ![i] = step.col], i + 1)

(* The frame returned (the frame handed in, changed in place) and the      *)
(* exception raised ("" if none).                                          *)
_process_datetime_columns(f) ==
    LET done == ProcessFrom(f.columns, 1)
    IN  [df |-> [is_none |-> FALSE, columns |-> done.columns], exc |-> done.exc]

-----------------------------------------------------------------------------
(* app/utils/huggingface_client.py: load_hf_dataset                        *)

NoneDf == [is_none |-> TRUE, columns |-> <<>>]
Frame(columns) == [is_none |-> FALSE, columns |-> columns]

(* fetched: what datasets.load_dataset and to_pandas did: the raw frame,   *)
(* or the class of the exception raised, "ValueError" or any other.        *)
(* Returns the frame, or the exception the function raises with its        *)
(* message.                                                                *)
load_hf_dataset(fetched) ==
    LET processed == _process_datetime_columns(fetched.df)
        exc == IF fetched.exc # "" THEN fetched.exc ELSE processed.exc
    IN  IF exc = ""
        THEN [df |-> processed.df, exc |-> "", msg |-> ""]
        ELSE IF exc = "ValueError"                         \* except ValueError
        THEN [df |-> NoneDf, exc |-> "ValueError", msg |-> "not_found_or_invalid_split"]
        ELSE [df |-> NoneDf, exc |-> "Exception", msg |-> exc]   \* except Exception

-----------------------------------------------------------------------------
(* app/components/data_visualizer.py.  A list of columns is the sequence   *)
(* of their positions in df.columns (the names are unique); a frame of     *)
(* rows (clean_df) is the sequence of the index labels of its rows, which  *)
(* are the positions of the rows in df.  v holds the values of the         *)
(* widgets of the run: viz_type, col (the choice in the first selectbox of *)
(* the chart, as a position in its options), col2 (the same for the        *)
(* second), bins, top_n, mode, and np_random, the state of numpy's global  *)
(* generator when the run starts.                                          *)

VizTypes == { "Histograma", "Grafico de Barras", "Scatter Plot",
              "Linha Temporal", "Box Plot", "Mapa de Calor (Correlacao)" }

Modes == {"Contar Ocorrencias", "Somar Valores"}

\* if len(clean_df) > 5000: clean_df.sample(5000, random_state=42)
ScatterMaxPoints == 5000
ScatterSeed == 42
\* st.slider("Número de Bins", 10, 100, 30)
HistBins == 30
\* st.slider("Top N Valores", 5, 50, 10)
BarTopNMin == 5
BarTopNDefault == 10
\* value_counts().head(15) of the box plot's groups.
BoxTopCategories == 15
\* numeric_cols[:20] of the heatmap.
HeatmapMaxCols == 20

ColumnsOfKinds(f, kinds) ==
    SelectSeq([i \in 1..Len(f.columns) |-> i], LAMBDA i : f.columns[i].kind \in kinds)

\* df.select_dtypes(include=[...]).columns.tolist(): "number" takes the
\* integer and float dtypes and leaves bool out; "datetime64" leaves the
\* timezone-aware dtype out.
numeric_cols(f) == ColumnsOfKinds(f, {"int64", "float64"})
categorical_cols(f) == ColumnsOfKinds(f, {"object", "category"})
datetime_cols(f) == ColumnsOfKinds(f, {"datetime64[ns]"})

\* df[cols].dropna(): the rows with no null in any of the columns cols.
DropnaRows(f, cols) ==
    SelectSeq([r \in 1..len(f) |-> r],
              LAMBDA r : \A k \in 1..Len(cols) : ~IsNull(f.columns[cols[k]].values[r]))

(* The generator behind random_state, reduced to a linear congruential    *)
(* one: the next state is a function of the state alone.                   *)
NextRandom(state) == (75 * state + 74) % 65537

(* DataFrame.sample(n, random_state=...): n different rows, chosen by a    *)
(* generator that random_state alone determines (here: the n rows that     *)
(* follow a position drawn from the generator, around the end of the       *)
(* frame).  Called with n <= len(rows) only.                               *)
sample(rows, n, random_state) ==
    LET total == Len(rows)
        start == NextRandom(random_state) % total
    IN  [j \in 1..n |-> rows[((start + j - 1) % total) + 1]]

_render_histogram(f, numeric, v) ==
    IF numeric = <<>>
    THEN Returns(<<Elem("warning", "no_numeric", <<>>)>>)
    ELSE LET column_ == numeric[v.col]
             clean_df == DropnaRows(f, <<column_>>)
         IN  IF Len(clean_df) = 0
             THEN Returns(<<Elem("warning", "all_null", <<>>)>>)
             ELSE Returns(<<Elem("altair_chart", "histogram",
                                 [column |-> column_, bins |-> v.bins,
                                  rows |-> Len(clean_df)])>>)

_render_bar_chart(f, categorical, v) ==
    IF categorical = <<>>
    THEN Returns(<<Elem("warning", "no_categorical", <<>>)>>)
    ELSE LET column_ == categorical[v.col]
             values == f.columns[column_].values
         IN  IF Unhashable(values)
             THEN Out(<<>>, "TypeError")       \* df[column].value_counts()
             ELSE Returns(<<Elem("altair_chart", "bar_chart",
                                 [column |-> column_, top_n |-> v.top_n,
                                  bars |-> head(value_counts(values), v.top_n)])>>)

\* The options of the second selectbox: [c for c in numeric_cols if c != x_col]
Without(cols, x) == SelectSeq(cols, LAMBDA c : c # x)

\* A scatter plot that samples with numpy's global generator
\* (random_state left out).
_render_scatter_unseeded(f, numeric, v) ==
    IF Len(numeric) < 2
    THEN Returns(<<Elem("warning", "need_two_numeric", <<>>)>>)
    ELSE LET x_col == numeric[v.col]
             y_col == Without(numeric, x_col)[v.col2]
         IN  \* clean_df, computed once
             CHOOSE r \in
               { IF Len(clean_df) = 0
                 THEN Returns(<<Elem("warning", "no_valid_data", <<>>)>>)
                 ELSE IF Len(clean_df) > ScatterMaxPoints
                 THEN Returns(<< Elem("info", "sampling", Len(clean_df)),
                                 Elem("altair_chart", "scatter",
                                      [x |-> x_col, y |-> y_col,
                                       rows |-> sample(clean_df, ScatterMaxPoints, v.np_random)]) >>)
                 ELSE Returns(<<Elem("altair_chart", "scatter",
                                     [x |-> x_col, y |-> y_col, rows |-> clean_df])>>)
                 : clean_df \in {DropnaRows(f, <<x_col, y_col>>)} } : TRUE

_render_scatter(f, numeric, v) ==
    IF Len(numeric) < 2
    THEN Returns(<<Elem("warning", "need_two_numeric", <<>>)>>)
    ELSE LET x_col == numeric[v.col]
             y_col == Without(numeric, x_col)[v.col2]
         IN  \* clean_df, computed once
             CHOOSE r \in
               { IF Len(clean_df) = 0
                 THEN Returns(<<Elem("warning", "no_valid_data", <<>>)>>)
                 ELSE IF Len(clean_df) > ScatterMaxPoints
                 THEN Returns(<< Elem("info", "sampling", Len(clean_df)),
                                 Elem("altair_chart", "scatter",
                                      [x |-> x_col, y |-> y_col,
                                       rows |-> sample(clean_df, ScatterMaxPoints, ScatterSeed)]) >>)
                 ELSE Returns(<<Elem("altair_chart", "scatter",
                                     [x |-> x_col, y |-> y_col, rows |-> clean_df])>>)
                 : clean_df \in {DropnaRows(f, <<x_col, y_col>>)} } : TRUE

\* Timestamp.date(): the calendar day of a timestamp (days after 2024-01-01).
DateOf(c) == c[2] \div 24

(* clean_df.groupby("date"): the days of the rows, ascending, each with    *)
(* the rows of that day.                                                   *)
GroupByDate(f, date_col, rows) ==
    LET day(r) == DateOf(f.columns[date_col].values[r])
        days == SortAsc(Distinct([k \in 1..Len(rows) |-> day(rows[k])]))
    IN  [d \in 1..Len(days) |->
            [date |-> days[d], rows |-> SelectSeq(rows, LAMBDA r : day(r) = days[d])]]

(* value_col = 0 stands for None.  groupby("date")[None] raises KeyError   *)
(* ("Column not found: None").                                             *)
_render_timeline(f, datetime, numeric, categorical, v) ==
    IF datetime = <<>>
    THEN Returns(<<Elem("warning", "no_datetime", <<>>)>>)
    ELSE LET date_col == datetime[v.col]
             mode == v.mode
             value_col == IF mode = "Somar Valores" /\ numeric # <<>>
                          THEN numeric[v.col2]
                          ELSE 0
             clean_df == DropnaRows(f, <<date_col>> \o
                                       (IF value_col # 0 THEN <<value_col>> ELSE <<>>))
             groups == GroupByDate(f, date_col, clean_df)
             size == [d \in 1..Len(groups) |-> <<groups[d].date, Len(groups[d].rows)>>]
             total(d) == FSum([k \in 1..Len(groups[d].rows) |->
                                  NumOf(f.columns[value_col].values[groups[d].rows[k]])], 0)
             sum == [d \in 1..Len(groups) |-> <<groups[d].date, total(d)>>]
         IN  IF Len(clean_df) = 0
             THEN Returns(<<Elem("warning", "no_valid_data", <<>>)>>)
             ELSE IF mode = "Contar Ocorrencias"
             THEN Returns(<<Elem("altair_chart", "timeline",
                                 [date |-> date_col, y |-> "count", data |-> size])>>)
             ELSE IF value_col = 0
             THEN Out(<<>>, "KeyError")        \* clean_df.groupby("date")[None]
             ELSE Returns(<<Elem("altair_chart", "timeline",
                                 [date |-> date_col, y |-> value_col, data |-> sum])>>)

\* group_col = 0 stands for "Nenhum".
_render_boxplot(f, numeric, categorical, v) ==
    IF numeric = <<>>
    THEN Returns(<<Elem("warning", "no_numeric", <<>>)>>)
    ELSE LET value_col == numeric[v.col]
             group_col == IF categorical # <<>>
                          THEN (<<0>> \o categorical)[v.col2]
                          ELSE 0
             clean_df == DropnaRows(f, <<value_col>> \o
                                       (IF group_col # 0 THEN <<group_col>> ELSE <<>>))
             groups == [k \in 1..Len(clean_df) |-> f.columns[group_col].values[clean_df[k]]]
             top == head(value_counts(groups), BoxTopCategories)
             top_categories == {top[k][1] : k \in 1..Len(top)}
             kept == SelectSeq(clean_df,
                               LAMBDA r : f.columns[group_col].values[r] \in top_categories)
         IN  IF group_col = 0
             THEN Returns(<<Elem("altair_chart", "boxplot",
                                 [value |-> value_col, group |-> 0, rows |-> clean_df])>>)
             ELSE IF Unhashable(groups)
             THEN Out(<<>>, "TypeError")       \* clean_df[group_col].value_counts()
             ELSE Returns(<<Elem("altair_chart", "boxplot",
                                 [value |-> value_col, group |-> group_col, rows |-> kept])>>)

\* The chart holds the matrix df[selected_cols].corr(); the model keeps the
\* columns it is over.
_render_correlation_heatmap(f, numeric) ==
    IF Len(numeric) < 2
    THEN Returns(<<Elem("warning", "need_two_numeric", <<>>)>>)
    ELSE IF Len(numeric) > HeatmapMaxCols
    THEN Returns(<< Elem("info", "first_columns_only", <<>>),
                    Elem("altair_chart", "heatmap", head(numeric, HeatmapMaxCols)) >>)
    ELSE Returns(<<Elem("altair_chart", "heatmap", numeric)>>)

create_visualizations(f, v) ==
    LET header == Returns(<<Elem("subheader", "visualizations", <<>>)>>)
        viz_type == v.viz_type
    IN  IF empty(f)
        THEN Then(header, Returns(<<Elem("warning", "empty_df", <<>>)>>))
        ELSE IF numeric_cols(f) = <<>> /\ categorical_cols(f) = <<>> /\ datetime_cols(f) = <<>>
        THEN Then(header, Returns(<<Elem("info", "no_suitable_column", <<>>)>>))
        ELSE Then(header,
             Then(Returns(<<Elem("selectbox", "viz_type", viz_type)>>),
                  CASE viz_type = "Histograma" ->
                          _render_histogram(f, numeric_cols(f), v)
                    [] viz_type = "Grafico de Barras" ->
                          _render_bar_chart(f, categorical_cols(f), v)
                    [] viz_type = "Scatter Plot" ->
                          _render_scatter(f, numeric_cols(f), v)
                    [] viz_type = "Linha Temporal" ->
                          _render_timeline(f, datetime_cols(f), numeric_cols(f),
                                           categorical_cols(f), v)
                    [] viz_type = "Box Plot" ->
                          _render_boxplot(f, numeric_cols(f), categorical_cols(f), v)
                    [] viz_type = "Mapa de Calor (Correlacao)" ->
                          _render_correlation_heatmap(f, numeric_cols(f))))

-----------------------------------------------------------------------------
(* app/main.py: DatasetExplorer                                            *)

\* st.slider("Linhas para preview", min_value=5, max_value=min(500, rows),
\*           value=min(100, rows), step=5)
SliderMin == 5
SliderMaxCap == 500
SliderValueCap == 100

Min(a, b) == IF a < b THEN a ELSE b

\* The explorer after __init__.
NewExplorer == [df |-> NoneDf, dataset_name |-> ""]

suggested_datasets ==
    << "", "nitaibezerra/govbrnews-reduced", "nitaibezerra/govbrnews", "Outro..." >>

Splits == {"train", "test", "validation"}

\* render_sidebar: the name the run works with.
SidebarName(dataset_choice, text_input) ==
    IF dataset_choice = "Outro..." THEN text_input ELSE dataset_choice

\* A load_dataset whose handlers are in the other order: the handler of
\* Exception catches the ValueError too.
load_dataset_generic_first(explorer, name, loaded) ==
    IF loaded.exc = ""
    THEN [ explorer |-> [df |-> loaded.df, dataset_name |-> name],
           ui |-> <<Elem("success", "loaded",
                         <<len(loaded.df), Len(loaded.df.columns)>>)>> ]
    ELSE [ explorer |-> explorer,
           ui |-> <<Elem("error", "load", loaded.msg)>> ]

(* load_dataset, given what load_hf_dataset returned or raised: the        *)
(* explorer afterwards and the elements shown.                             *)
load_dataset(explorer, name, loaded) ==
    IF loaded.exc = ""
    THEN [ explorer |-> [df |-> loaded.df, dataset_name |-> name],
           ui |-> <<Elem("success", "loaded",
                         <<len(loaded.df), Len(loaded.df.columns)>>)>> ]
    ELSE IF loaded.exc = "ValueError"                      \* except ValueError
    THEN [ explorer |-> explorer,
           ui |-> << Elem("error", "validation", loaded.msg),
                     Elem("info", "tip_check_name", <<>>) >> ]
    ELSE [ explorer |-> explorer,                          \* except Exception
           ui |-> <<Elem("error", "load", loaded.msg)>> ]

(* slider_raises: whether Streamlit rejects a slider whose bounds and      *)
(* value are not ordered (a property of the installed Streamlit).          *)
render_overview_tab(explorer, slider_raises) ==
    LET f == explorer.df
        header == <<Elem("subheader", "overview", <<>>)>>
        metrics == << Elem("metric", "rows", len(f)),
                      Elem("metric", "columns", Len(f.columns)),
                      Elem("metric", "memory", <<>>),
                      Elem("metric", "complete", <<>>),
                      Elem("subheader", "preview", <<>>) >>
        max_value == Min(SliderMaxCap, len(f))
        value == Min(SliderValueCap, len(f))
        ordered == SliderMin <= value /\ value <= max_value
        preview == << Elem("slider", "preview_rows", <<SliderMin, value, max_value>>),
                      Elem("dataframe", "preview", Min(value, len(f))),
                      Elem("subheader", "column_info", <<>>) >>
    IN  IF f.is_none \/ empty(f)
        THEN Returns(header \o <<Elem("info", "select_dataset", <<>>)>>)
        ELSE IF ~ordered /\ slider_raises
        THEN Out(header \o metrics, "StreamlitAPIException")
        ELSE IF \E i \in 1..Len(f.columns) : Unhashable(f.columns[i].values)
        THEN Out(header \o metrics \o preview, "TypeError")   \* self.df.nunique()
        ELSE Returns(header \o metrics \o preview
                     \o <<Elem("dataframe", "col_info", <<>>)>>)

(* run, after the sidebar and the load: the banner, the three tabs and the *)
(* footer.  w holds the widget values and library behaviours of the run.   *)
RenderTabs(explorer, w) ==
    LET f == explorer.df
        banner == IF ~f.is_none
                  THEN <<Elem("info", "current_dataset", explorer.dataset_name)>>
                  ELSE <<>>
        tabs == Returns(banner \o <<Elem("tabs", "tabs", <<>>)>>)
        tab2 == IF ~f.is_none /\ ~empty(f)
                THEN analyze_columns(f, w.column, w.quantile_raises)
                ELSE Returns(<<Elem("info", "load_to_analyze", <<>>)>>)
        tab3 == IF ~f.is_none /\ ~empty(f)
                THEN create_visualizations(f, w.viz)
                ELSE Returns(<<Elem("info", "load_to_visualize", <<>>)>>)
        footer == Returns(<<Elem("divider", "footer", <<>>), Elem("caption", "footer", <<>>)>>)
    IN  Then(tabs,
        Then(render_overview_tab(explorer, w.slider_raises),
        Then(tab2,
        Then(tab3, footer))))

(* One script run: main() builds a new DatasetExplorer and calls run().    *)
(* loaded is what load_hf_dataset returns or raises if it is called.       *)
run(name, press, loaded, w) ==
    LET explorer == NewExplorer                  \* explorer = DatasetExplorer()
        title == <<Elem("title", "title", <<>>), Elem("markdown", "intro", <<>>)>>
        load == IF press /\ name # ""
                THEN load_dataset(explorer, name, loaded)
                ELSE [explorer |-> explorer, ui |-> <<>>]
    IN  CHOOSE r \in { [ explorer |-> load.explorer,
                         ui |-> title \o load.ui \o rest.ui,
                         exc |-> rest.exc ]
                       : rest \in {RenderTabs(load.explorer, w)} } : TRUE

-----------------------------------------------------------------------------
(* Inputs: column names.                                                   *)

N_created_at == <<"c", "r", "e", "a", "t", "e", "d", "_", "a", "t">>
N_value == <<"v", "a", "l", "u", "e">>
N_timestamp == <<"t", "i", "m", "e", "s", "t", "a", "m", "p">>
N_PubDate == <<"P", "u", "b", "D", "a", "t", "e">>
N_full_time == <<"f", "u", "l", "l", "_", "t", "i", "m", "e">>
N_title == <<"t", "i", "t", "l", "e">>
N_tags == <<"t", "a", "g", "s">>
N_views == <<"v", "i", "e", "w", "s">>

Col(name, kind, values) == [name |-> name, kind |-> kind, values |-> values]

-----------------------------------------------------------------------------
(* Inputs of the column analyzer and of get_column_stats: every column of  *)
(* up to MaxRows cells of each kind, and long textual columns.             *)

\* A float whose triple sum rounds upwards in MantissaBits bits.
WideFloat == Pow2(MantissaBits) - 6

IntCells == {Num(-1), Num(0), Num(2)}
FloatCells == {Null, Num(-1), Num(2), Num(WideFloat)}
BoolCells == {Bool(0), Bool(1)}
TextCells == {Null, Str(1), Str(4), Str(5)}
NestedCells == {Null, Obj(1), Str(4)}
StringCells == {Null, Str(4), Str(5)}
TsCells == {Null, Ts(0), Ts(23), Ts(49)}
TdCells == {Null, Td(1)}
CategoryCells == {Null, Str(4)}

CellsOf(kind) ==
    CASE kind = "int64" -> IntCells
      [] kind = "float64" -> FloatCells
      [] kind = "bool" -> BoolCells
      [] kind = "object" -> TextCells \cup NestedCells
      [] kind = "string" -> StringCells
      [] kind = "datetime64[ns]" -> TsCells
      [] kind = "datetime64[ns, UTC]" -> {Null, Ts(0)}
      [] kind = "timedelta64[ns]" -> TdCells
      [] kind = "category" -> CategoryCells

Kinds == { "int64", "float64", "bool", "object", "string", "datetime64[ns]",
           "datetime64[ns, UTC]", "timedelta64[ns]", "category" }

\* An object column holds strings and None, or nested values, strings and None.
ObjectValues(n) == SeqsUpTo(TextCells, n) \cup SeqsUpTo(NestedCells, n)

ValuesOf(kind, n) ==
    IF kind = "object" THEN ObjectValues(n) ELSE SeqsUpTo(CellsOf(kind), n)

\* d distinct strings, the first one r more times, then k nulls.
LongText(d, r, k) ==
    [i \in 1..(d + r + k) |->
        IF i <= d THEN Str(3 + i) ELSE IF i <= d + r THEN Str(4) ELSE Null]

LongTextValues ==
    {LongText(d, r, k) : d \in 1..MaxDistinct, r \in 0..MaxRepeat, k \in 0..MaxNulls}

\* The columns of test_get_column_stats_numeric and
\* test_get_column_stats_categorical: [1, 2, 3, 4, 5, None] and
\* ["A", "B", "A", "C", "A", None].
TestNumericColumn ==
    Col(N_value, "float64", <<Num(1), Num(2), Num(3), Num(4), Num(5), Null>>)
TestCategoricalColumn ==
    Col(N_title, "object", <<Str(4), Str(5), Str(4), Str(6), Str(4), Null>>)

AnalyzerColumns ==
    {Col(N_value, kind, v) : kind \in Kinds, v \in {<<>>}} \cup
    UNION {{Col(N_value, kind, v) : v \in ValuesOf(kind, MaxRows)} : kind \in Kinds} \cup
    {Col(N_title, "object", v) : v \in LongTextValues} \cup
    {TestNumericColumn, TestCategoricalColumn}

\* Two-column frames, for a selection that is a choice.
PairColumns ==
    { Col(N_views, "int64", <<Num(0), Num(2)>>),
      Col(N_full_time, "bool", <<Bool(1), Bool(0)>>),
      Col(N_title, "object", <<Str(4), Null>>),
      Col(N_tags, "object", <<Obj(1), Obj(1)>>) }

AnalyzerFrames ==
    {Frame(<<col>>) : col \in AnalyzerColumns} \cup
    {Frame(<<p[1], p[2]>>) : p \in {q \in PairColumns \X PairColumns : q[1].name # q[2].name}}

-----------------------------------------------------------------------------
(* Inputs of the datetime heuristic: frames of one or two columns of up to *)
(* MaxHeurRows rows, every name with every kind.                           *)

HeurNames == {N_created_at, N_value, N_PubDate, N_full_time, N_tags}

HeurCells(kind) ==
    CASE kind = "object" -> {Null, Str(1), Str(4)}
      [] kind = "int64" -> {Num(2)}
      [] kind = "float64" -> {Null, Num(2)}
      [] kind = "bool" -> {Bool(1)}
      [] kind = "datetime64[ns]" -> {Null, Ts(23)}
      [] kind = "timedelta64[ns]" -> {Td(1)}

HeurKinds == {"object", "int64", "float64", "bool", "datetime64[ns]", "timedelta64[ns]"}

HeurColumns(n) ==
    UNION {{Col(name, kind, v) : name \in HeurNames, v \in SeqsOfLen(HeurCells(kind), n)}
           : kind \in HeurKinds}

HeuristicFrames(n) ==
    {Frame(<<a>>) : a \in HeurColumns(n)} \cup
    {Frame(<<p[1], p[2]>>) :
         p \in {q \in HeurColumns(n) \X HeurColumns(n) : q[1].name # q[2].name}}

-----------------------------------------------------------------------------
(* The HuggingFace Hub of the model: what datasets.load_dataset and        *)
(* to_pandas give for a name and a split.                                  *)

TextInputs == {"", "user/ds", "user/missing"}

HubReducedTrain ==
    Frame(<< Col(N_created_at, "object",
                 <<Str(1), Str(2), Str(3), Str(4), Null, Str(1)>>),
             Col(N_title, "object",
                 <<Str(4), Str(5), Str(4), Str(6), Str(4), Null>>),
             Col(N_views, "int64",
                 <<Num(0), Num(2), Num(2), Num(-1), Num(0), Num(2)>>) >>)

HubReducedTest ==
    Frame(<< Col(N_full_time, "bool", <<Bool(1), Bool(0), Bool(1)>>),
             Col(N_value, "float64", <<Num(2), Null, Num(-1)>>),
             Col(N_PubDate, "object", <<Null, Null, Null>>) >>)

HubNewsTrain ==
    Frame(<< Col(N_tags, "object", <<Obj(1), Obj(2)>>),
             Col(N_timestamp, "int64", <<Num(0), Num(2)>>) >>)

HubUserTrain == Frame(<<Col(N_value, "float64", <<>>)>>)

Fetched(exc, frame) == [exc |-> exc, df |-> frame]

\* Without a network failure.
HubAnswer(name, split) ==
    CASE name = "nitaibezerra/govbrnews-reduced" /\ split = "train" -> Fetched("", HubReducedTrain)
      [] name = "nitaibezerra/govbrnews-reduced" /\ split = "test" -> Fetched("", HubReducedTest)
      [] name = "nitaibezerra/govbrnews" /\ split = "train" -> Fetched("", HubNewsTrain)
      [] name = "user/ds" /\ split = "train" -> Fetched("", HubUserTrain)
      [] name = "user/missing" -> Fetched("FileNotFoundError", NoneDf)
      [] OTHER -> Fetched("ValueError", NoneDf)          \* unknown split

\* What load_dataset and to_pandas may do in a call of load_hf_dataset: the
\* Hub's answer (which the cache repeats), or a failure of the network.
Fetches(name, split) ==
    IF <<name, split>> \in cache
    THEN {HubAnswer(name, split)}
    ELSE {HubAnswer(name, split), Fetched("ConnectionError", NoneDf)}

\* st.text_input is shown only with "Outro..." chosen.
TextInputOf(choice) == IF choice = "Outro..." THEN TextInputs ELSE {""}

\* The widgets of the visualizer as they are before the user touches them.
DefaultViz(viz_type) ==
    [ viz_type |-> viz_type, col |-> 1, col2 |-> 1, bins |-> HistBins,
      top_n |-> BarTopNDefault, mode |-> "Contar Ocorrencias", np_random |-> ScatterSeed + 1 ]

\* The widgets of the tabs and the libraries' behaviour in one run.
DefaultWidgets ==
    [column |-> 1, viz |-> DefaultViz("Histograma"), quantile_raises |-> FALSE,
     slider_raises |-> FALSE]

\* (A library's behaviour is a choice only where the run meets it.)
Widgets(f) ==
    IF f.is_none \/ empty(f) THEN {DefaultWidgets}
    ELSE [ column : 1..Len(f.columns),
           viz : {DefaultViz(t) : t \in VizTypes},
           quantile_raises :
               IF \E i \in 1..Len(f.columns) : f.columns[i].kind = "bool"
               THEN BOOLEAN ELSE {FALSE},
           slider_raises : IF len(f) < SliderMin THEN BOOLEAN ELSE {FALSE} ]

-----------------------------------------------------------------------------
(* The session: script runs of app/main.py.                                *)

Init ==
    /\ df = NoneDf
    /\ dataset_name = ""
    /\ load_button = FALSE
    /\ load_error = ""
    /\ ui = <<>>
    /\ raised = ""
    /\ cache = {}
    /\ arg = NoneDf
    /\ column = 0
    /\ ret_df = NoneDf
    /\ stats = <<>>
    /\ viz = <<>>
    /\ called = ""

\* The user presses "Carregar Dataset" (enabled only with a name).
RunLoad ==
    \E choice \in Range(suggested_datasets), split \in Splits :
      \E text \in TextInputOf(choice) :
        LET name == SidebarName(choice, text)
        IN  /\ name # ""
            /\ \E fetched \in Fetches(name, split) :
                \E loaded \in {load_hf_dataset(fetched)} :
                 \E w \in Widgets(loaded.df) :
                   \E r \in {run(name, TRUE, loaded, w)} :
                       /\ df' = r.explorer.df
                       /\ dataset_name' = r.explorer.dataset_name
                       /\ load_button' = TRUE
                       /\ load_error' = fetched.exc
                       /\ ui' = r.ui
                       /\ raised' = r.exc
                       /\ cache' = IF loaded.exc = "" THEN cache \cup {<<name, split>>} ELSE cache
                       /\ UNCHANGED <<arg, column, ret_df, stats, called, viz>>

\* Any other interaction (a selectbox, a slider, a tab's widget): the script
\* runs again with the button not pressed.
Rerun ==
    \E choice \in Range(suggested_datasets) :
      \E text \in TextInputOf(choice) :
        \E r \in {run(SidebarName(choice, text), FALSE,
                       load_hf_dataset(Fetched("", NoneDf)), DefaultWidgets)} :
            /\ df' = r.explorer.df
            /\ dataset_name' = r.explorer.dataset_name
            /\ load_button' = FALSE
            /\ load_error' = ""
            /\ ui' = r.ui
            /\ raised' = r.exc
            /\ UNCHANGED <<cache, arg, column, ret_df, stats, called, viz>>

\* ttl = 6 hours: an entry of the cache expires.
CacheExpire ==
    \E k \in cache :
        /\ cache' = cache \ {k}
        /\ UNCHANGED <<df, dataset_name, load_button, load_error, ui, raised, arg, column, ret_df, stats, called, viz>>

Next == RunLoad \/ Rerun \/ CacheExpire

Spec == Init /\ [][Next]_vars

-----------------------------------------------------------------------------
(* The column analyzer and get_column_stats, applied to every input.       *)

InitAnalyzer ==
    /\ df = NoneDf
    /\ dataset_name = ""
    /\ load_button = FALSE
    /\ load_error = ""
    /\ ui = <<>>
    /\ raised = ""
    /\ cache = {}
    /\ arg \in AnalyzerFrames
    /\ column = 0
    /\ ret_df = NoneDf
    /\ stats = <<>>
    /\ viz = <<>>
    /\ called = ""

CallAnalyzeColumns ==
    \E c \in 1..Len(arg.columns), quantile_raises \in BOOLEAN :
        \E r \in {analyze_columns(arg, c, quantile_raises)} :
            /\ ui' = r.ui
            /\ raised' = r.exc
            /\ column' = IF empty(arg) THEN 0 ELSE c
            /\ stats' = <<>>
            /\ called' = "analyze_columns"
            /\ UNCHANGED <<df, dataset_name, load_button, load_error, cache, arg, ret_df, viz>>

CallGetColumnStats ==
    \E c \in 1..Len(arg.columns), quantile_raises \in BOOLEAN :
        \E r \in {get_column_stats(arg, c, quantile_raises)} :
            /\ stats' = r.val
            /\ raised' = r.exc
            /\ column' = c
            /\ ui' = <<>>
            /\ called' = "get_column_stats"
            /\ UNCHANGED <<df, dataset_name, load_button, load_error, cache, arg, ret_df, viz>>

NextAnalyzer == CallAnalyzeColumns \/ CallGetColumnStats

SpecAnalyzer == InitAnalyzer /\ [][NextAnalyzer]_vars

-----------------------------------------------------------------------------
(* The datetime heuristic, applied to every input.  arg keeps the frame as *)
(* it was handed in; the function changes that frame in place and returns  *)
(* it.                                                                     *)

InitHeuristic ==
    /\ df = NoneDf
    /\ dataset_name = ""
    /\ load_button = FALSE
    /\ load_error = ""
    /\ ui = <<>>
    /\ raised = ""
    /\ cache = {}
    /\ \E n \in 0..MaxHeurRows : arg \in HeuristicFrames(n)
    /\ column = 0
    /\ ret_df = NoneDf
    /\ stats = <<>>
    /\ viz = <<>>
    /\ called = ""

CallProcessDatetimeColumns ==
    \E r \in {_process_datetime_columns(arg)} :
        /\ ret_df' = r.df
        /\ raised' = r.exc
        /\ called' = "_process_datetime_columns"
        /\ UNCHANGED <<df, dataset_name, load_button, load_error, ui, cache, arg, column, stats, viz>>

NextHeuristic == CallProcessDatetimeColumns

SpecHeuristic == InitHeuristic /\ [][NextHeuristic]_vars

-----------------------------------------------------------------------------
(* create_visualizations, applied to every input with every choice of the  *)
(* widgets.                                                                *)

\* A long frame of two numeric columns: rows rows, the first nulls of them
\* with a null in the second column.
LongFrame(rows, nulls) ==
    Frame(<< Col(N_views, "int64", [i \in 1..rows |-> Num(i % 3)]),
             Col(N_value, "float64",
                 [i \in 1..rows |-> IF i <= nulls THEN Null ELSE Num(2)]) >>)

LongFrames ==
    {LongFrame(ScatterMaxPoints + extra, nulls) :
        extra \in 0..MaxExtraRows, nulls \in 0..MaxNullRows}

\* The columns of the short frames.
VizPool ==
    << Col(N_created_at, "datetime64[ns]", <<Ts(23), Ts(0), Ts(49)>>),
       Col(N_timestamp, "datetime64[ns]", <<Null, Null, Null>>),
       Col(N_value, "float64", <<Num(2), Null, Num(-1)>>),
       Col(N_views, "int64", <<Num(0), Num(2), Num(2)>>),
       Col(N_title, "object", <<Str(4), Null, Str(4)>>),
       Col(N_tags, "object", <<Obj(1), Obj(1), Str(4)>>),
       Col(N_full_time, "bool", <<Bool(1), Bool(0), Bool(1)>>),
       Col(N_PubDate, "datetime64[ns, UTC]", <<Ts(0), Ts(0), Null>>) >>

\* The columns of the pool at the positions picked, in the pool's order.
PickColumns(picked) ==
    LET at == SelectSeq([i \in 1..Len(VizPool) |-> i], LAMBDA i : i \in picked)
    IN  [k \in 1..Len(at) |-> VizPool[at[k]]]

ShortFrames ==
    {Frame(PickColumns(picked)) :
        picked \in {p \in SUBSET (1..Len(VizPool)) : Cardinality(p) \in 1..MaxVizColumns}}

VisualizerFrames ==
    LongFrames \cup ShortFrames \cup {Frame(<<>>), Frame(<<Col(N_value, "float64", <<>>)>>)}

AtLeastOne(n) == IF n < 1 THEN 1 ELSE n

\* The states numpy's global generator may be in when a run starts.
NumpyStates == {ScatterSeed, ScatterSeed + 1}

(* The values the widgets of the visualizer can have on frame f: each      *)
(* selectbox one of its options; a widget the chart does not show keeps    *)
(* its default.                                                            *)
VizWidgets(f) ==
    LET num == Len(numeric_cols(f))
        cat == Len(categorical_cols(f))
        dt == Len(datetime_cols(f))
    IN  {[DefaultViz("Histograma") EXCEPT !.col = c] : c \in 1..AtLeastOne(num)} \cup
        {[DefaultViz("Grafico de Barras") EXCEPT !.col = c, !.top_n = n] :
            c \in 1..AtLeastOne(cat), n \in {BarTopNMin, BarTopNDefault}} \cup
        {[DefaultViz("Scatter Plot") EXCEPT !.col = c, !.col2 = c2, !.np_random = g] :
            c \in 1..AtLeastOne(num), c2 \in 1..AtLeastOne(num - 1), g \in NumpyStates} \cup
        {[DefaultViz("Linha Temporal") EXCEPT !.col = c, !.mode = "Contar Ocorrencias"] :
            c \in 1..AtLeastOne(dt)} \cup
        {[DefaultViz("Linha Temporal") EXCEPT !.col = c, !.col2 = c2, !.mode = "Somar Valores"] :
            c \in 1..AtLeastOne(dt), c2 \in 1..AtLeastOne(num)} \cup
        {[DefaultViz("Box Plot") EXCEPT !.col = c, !.col2 = c2] :
            c \in 1..AtLeastOne(num), c2 \in 1..(1 + cat)} \cup
        {DefaultViz("Mapa de Calor (Correlacao)")}

InitVisualizer ==
    /\ df = NoneDf
    /\ dataset_name = ""
    /\ load_button = FALSE
    /\ load_error = ""
    /\ ui = <<>>
    /\ raised = ""
    /\ cache = {}
    /\ arg \in VisualizerFrames
    /\ column = 0
    /\ ret_df = NoneDf
    /\ stats = <<>>
    /\ viz = <<>>
    /\ called = ""

CallCreateVisualizations ==
    \E v \in VizWidgets(arg) :
        \E r \in {create_visualizations(arg, v)} :
            /\ ui' = r.ui
            /\ raised' = r.exc
            /\ viz' = v
            /\ called' = "create_visualizations"
            /\ UNCHANGED <<df, dataset_name, load_button, load_error, cache, arg, column,
                           ret_df, stats>>

NextVisualizer == CallCreateVisualizations

SpecVisualizer == InitVisualizer /\ [][NextVisualizer]_vars

-----------------------------------------------------------------------------
(* Properties of the column analyzer and of get_column_stats               *)
(* (SpecAnalyzer).                                                         *)

\* The elements on the page.
Shown(w, tag) == \E i \in 1..Len(ui) : ui[i].w = w /\ ui[i].tag = tag
ValueShown(tag) == ui[CHOOSE i \in 1..Len(ui) : ui[i].tag = tag].val

\* The column the last call was about.
Selected == arg.columns[column]

AnalyzedColumn == called = "analyze_columns" /\ column # 0
StatsOfColumn == called = "get_column_stats" /\ column # 0

\* The statistics the page shows, by the heading above them.
ShownCategories ==
    {cat \in {"NUMERIC", "TEXTUAL", "TEMPORAL", "UNSUPPORTED"} :
        \/ cat = "NUMERIC" /\ Shown("write", "numeric_stats")
        \/ cat = "TEXTUAL" /\ Shown("write", "top_values")
        \/ cat = "TEMPORAL" /\ Shown("write", "datetime_stats")
        \/ cat = "UNSUPPORTED" /\ Shown("info", "not_supported")}

\* Integer or floating-point; plain text; timestamps.
DeclaredNumber == {"int64", "float64"}
DeclaredText == {"object", "string"}
DeclaredTimestamp == {"datetime64[ns]", "datetime64[ns, UTC]"}

\* C1: a column is put in exactly one of the four categories, by its
\* declared kind alone: number -> NUMERIC, text -> TEXTUAL, timestamp ->
\* TEMPORAL, every other kind -> UNSUPPORTED.
C1_CategoryByDeclaredKind ==
    (AnalyzedColumn /\ Shown("write", "basic_info") /\ ShownCategories # {}) =>
        ShownCategories =
            { IF Selected.kind \in DeclaredNumber THEN "NUMERIC"
              ELSE IF Selected.kind \in DeclaredText THEN "TEXTUAL"
              ELSE IF Selected.kind \in DeclaredTimestamp THEN "TEMPORAL"
              ELSE "UNSUPPORTED" }

\* C2: a boolean column, and a column of nested values (lists, dicts), is
\* UNSUPPORTED: the page shows the "not supported" notice for it.
C2_BoolAndNestedUnsupported ==
    (AnalyzedColumn /\ (Selected.kind = "bool" \/ Unhashable(Selected.values))) =>
        /\ raised = ""
        /\ ShownCategories = {"UNSUPPORTED"}

\* A numeric column with at least one non-null value.
HasNumbers == Selected.kind \in DeclaredNumber /\ Len(dropna(Selected.values)) > 0

QuantilesOrdered(mn, q25, md, q75, mx) ==
    FLe(mn, q25) /\ FLe(q25, md) /\ FLe(md, q75) /\ FLe(q75, mx)

\* The summary as the detail view prints it and as get_column_stats
\* returns it.
ShownQuantilesOrdered ==
    QuantilesOrdered(ValueShown("min"), ValueShown("q25"), ValueShown("median"),
                     ValueShown("q75"), ValueShown("max"))
ShownMeanWithin ==
    FLe(ValueShown("min"), ValueShown("mean")) /\ FLe(ValueShown("mean"), ValueShown("max"))
StatsQuantilesOrdered ==
    QuantilesOrdered(stats.min, stats.q25, stats.median, stats.q75, stats.max)
StatsMeanWithin == FLe(stats.min, stats.mean) /\ FLe(stats.mean, stats.max)

\* The float sum of the column's numbers is their sum.
SumExact == FSum(Nums(Selected.values), 0) = SumSeq(Nums(Selected.values))

AllNullNumbers ==
    /\ Selected.kind \in DeclaredNumber
    /\ Len(Selected.values) > 0
    /\ Len(dropna(Selected.values)) = 0

NumericFields == {"mean", "std", "min", "max", "median", "q25", "q75"}

\* C4: for a numeric column whose values are all null the detail view
\* reports "no data" and prints no statistic, and get_column_stats returns
\* no NaN statistic either.
C4_AllNullReportsNoData ==
    /\ (AnalyzedColumn /\ AllNullNumbers) =>
           /\ raised = ""
           /\ Shown("warning", "all_null")
           /\ \A t \in NumericFields : ~Shown("write", t)
    /\ (StatsOfColumn /\ AllNullNumbers) =>
           /\ raised = ""
           /\ \A t \in NumericFields \cap DOMAIN stats : ~stats[t].nan

\* The rows the frequency table of the detail view lists: value, count,
\* percentage (in tenths: Rat(t, 10)).
FreqRows == ValueShown("freq_df")
FreqTableShown == AnalyzedColumn /\ Shown("dataframe", "freq_df")

\* The sum of the percentages listed, in tenths of a percent, and of the counts.
PctTenths == SumSeq([i \in 1..Len(FreqRows) |-> FreqRows[i][3].num])
CountsListed == SumSeq([i \in 1..Len(FreqRows) |-> FreqRows[i][2]])

ListsEveryValue ==
    /\ Len(FreqRows) = Cardinality({c \in Range(Selected.values) : ~IsNull(c)})
    /\ \A i \in 1..Len(Selected.values) : ~IsNull(Selected.values[i])

\* C5 (as stated): the percentages of the top-N table add up to at most
\* 100, and to exactly 100 only when every distinct value is listed and the
\* column has no nulls.
C5_PercentagesAtMost100 ==
    FreqTableShown =>
        /\ PctTenths <= 1000
        /\ PctTenths = 1000 => ListsEveryValue

Abs(x) == IF x < 0 THEN -x ELSE x

\* C5 (amended): each percentage is count / rows * 100 to within 0.05; the
\* exact percentages add up to at most 100, to exactly 100 if and only if
\* every distinct value is listed and the column has no nulls; so the
\* percentages listed add up to at most 100 + 0.05 for each row listed.
C5_PercentagesAtMost100UpToRounding ==
    FreqTableShown =>
        /\ \A i \in 1..Len(FreqRows) :
               /\ FreqRows[i][3].den = 10
               /\ 2 * Abs(FreqRows[i][3].num * len(arg) - 1000 * FreqRows[i][2]) <= len(arg)
        /\ CountsListed <= len(arg)
        /\ CountsListed = len(arg) <=> ListsEveryValue
        /\ 2 * PctTenths <= 2000 + Len(FreqRows)

\* A table cut at ten rows, of a column with more distinct values and a null.
C5_Witness ==
    /\ FreqTableShown
    /\ Len(FreqRows) = TopDetail
    /\ nunique(Selected.values) > TopDetail
    /\ \E i \in 1..Len(Selected.values) : IsNull(Selected.values[i])
    /\ FreqRows[1][2] > FreqRows[2][2]

\* C6: every selected column yields either a summary (statistics of its
\* category) or a notice (no data, not supported); the analyzer never
\* raises.
C6_SummaryOrNotice ==
    AnalyzedColumn =>
        /\ raised = ""
        /\ \/ Shown("write", "mean")
           \/ Shown("dataframe", "freq_df")
           \/ Shown("write", "earliest")
           \/ Shown("warning", "all_null")
           \/ Shown("warning", "no_values")
           \/ Shown("info", "not_supported")

\* The nulls and the distinct non-null values of the column, counted on
\* the cells.
NullsOfSelected == Cardinality({i \in 1..Len(Selected.values) : IsNull(Selected.values[i])})
DistinctOfSelected == Cardinality({c \in Range(Selected.values) : ~IsNull(c)})

\* C11: for every column get_column_stats returns count = the rows, nulls
\* included, null_count = the nulls, unique = the distinct non-null values
\* (so unique <= count - null_count); [1, 2, 3, 4, 5, None] gives count 6,
\* unique 5, null_count 1 and mean 3.0.
C11_CountUniqueNulls ==
    StatsOfColumn =>
        /\ raised = ""
        /\ stats.count = Len(Selected.values)
        /\ stats.null_count = NullsOfSelected
        /\ stats.unique = DistinctOfSelected
        /\ stats.unique <= stats.count - stats.null_count
        /\ Selected = TestNumericColumn =>
               /\ stats.count = 6 /\ stats.unique = 5 /\ stats.null_count = 1
               /\ FLe(stats.mean, Rat(3, 1)) /\ FLe(Rat(3, 1), stats.mean)

BasicFields == {"column", "dtype", "count", "unique", "null_count", "null_pct"}

\* C12: the record of get_column_stats has the numeric fields if and only
\* if the column's declared kind is numeric (integer or float); the basic
\* fields are there for every kind; ["A", "B", "A", "C", "A", None] has
\* unique 3, null_count 1 and no numeric field.
C12_NumericFieldsIffNumericKind ==
    StatsOfColumn =>
        /\ raised = ""
        /\ BasicFields \subseteq DOMAIN stats
        /\ IF Selected.kind \in DeclaredNumber
           THEN NumericFields \subseteq DOMAIN stats
           ELSE NumericFields \cap DOMAIN stats = {}
        /\ Selected = TestCategoricalColumn =>
               stats.unique = 3 /\ stats.null_count = 1

\* How often a cell occurs in the column.
OccurrencesOfSelected(v) ==
    Cardinality({i \in 1..Len(Selected.values) : Selected.values[i] = v})

ListedValues == {FreqRows[i][1] : i \in 1..Len(FreqRows)}
UnlistedValues == {c \in Range(Selected.values) : ~IsNull(c)} \ ListedValues

\* C14: the frequency table of a textual column lists at most 10 distinct
\* non-null values with their counts, in non-increasing order of count;
\* every listed count is >= the count of every value not listed (which
\* there is only if 10 are listed); a null is never listed.
C14_MostFrequentFirst ==
    FreqTableShown =>
        /\ Len(FreqRows) <= 10
        /\ UnlistedValues # {} => Len(FreqRows) = 10
        /\ \A i \in 1..Len(FreqRows) :
               /\ ~IsNull(FreqRows[i][1])
               /\ FreqRows[i][2] = OccurrencesOfSelected(FreqRows[i][1])
               /\ FreqRows[i][2] >= 1
               /\ \A j \in (i + 1)..Len(FreqRows) :
                      /\ FreqRows[i][2] >= FreqRows[j][2]
                      /\ FreqRows[i][1] # FreqRows[j][1]
               /\ \A v \in UnlistedValues : FreqRows[i][2] >= OccurrencesOfSelected(v)

\* Ten values listed, the first more frequent than the last, one left out.
C14_Witness ==
    /\ FreqTableShown
    /\ Len(FreqRows) = 10
    /\ FreqRows[1][2] > FreqRows[10][2]
    /\ UnlistedValues # {}

\* The non-null timestamps of the column (hours).
HoursOfSelected == {c[2] : c \in {x \in Range(Selected.values) : ~IsNull(x)}}

TemporalSelected == AnalyzedColumn /\ Selected.kind \in DeclaredTimestamp

\* C15: for a temporal column with a non-null value the summary gives the
\* earliest and the latest non-null value, earliest <= latest, and the
\* span in whole days, the difference truncated (never rounded up), >= 0;
\* with every value null it says "no data" instead.
C15_SpanInWholeDays ==
    TemporalSelected =>
        /\ raised = ""
        /\ IF HoursOfSelected = {}
           THEN /\ Shown("warning", "all_null")
                /\ ~Shown("write", "earliest") /\ ~Shown("write", "latest")
                /\ ~Shown("write", "span_days")
           ELSE /\ ValueShown("earliest") \in HoursOfSelected
                /\ ValueShown("latest") \in HoursOfSelected
                /\ \A h \in HoursOfSelected :
                       ValueShown("earliest") <= h /\ h <= ValueShown("latest")
                /\ ValueShown("earliest") <= ValueShown("latest")
                /\ ValueShown("span_days") >= 0
                /\ 24 * ValueShown("span_days") <= ValueShown("latest") - ValueShown("earliest")
                /\ ValueShown("latest") - ValueShown("earliest") < 24 * (ValueShown("span_days") + 1)

\* A span that was truncated: more than half a day shown as no day.
C15_Witness ==
    /\ TemporalSelected /\ raised = ""
    /\ Shown("write", "span_days")
    /\ ValueShown("span_days") = 0
    /\ ValueShown("latest") - ValueShown("earliest") > 12

-----------------------------------------------------------------------------
(* Properties of the session (Spec).                                       *)

\* C7: once loaded, the dataframe and the dataset name stay the loaded
\* ones through every script run in which the Load button is not pressed.
C7_DatasetKeptUntilNextLoad ==
    [][(~df.is_none /\ ~load_button') =>
          (df' = df /\ dataset_name' = dataset_name)]_vars

ErrorsShown == {i \in 1..Len(ui) : ui[i].w = "error"}

\* The tabs and the footer below them, as they are without a dataset.
TabsRendered ==
    /\ Shown("tabs", "tabs")
    /\ Shown("info", "select_dataset")
    /\ Shown("info", "load_to_analyze")
    /\ Shown("info", "load_to_visualize")
    /\ Shown("caption", "footer")

C16_SliderBoundsConsistent ==
    (~df.is_none /\ ~empty(df)) =>
        /\ Shown("slider", "preview_rows")
        /\ LET bounds == ValueShown("preview_rows")
               min_value == bounds[1]
               value == bounds[2]
               max_value == bounds[3]
           IN  /\ min_value = 5
               /\ max_value = (IF len(df) < 500 THEN len(df) ELSE 500)
               /\ value = (IF len(df) < 100 THEN len(df) ELSE 100)
               /\ min_value <= value /\ value <= max_value

-----------------------------------------------------------------------------
(* Properties of the datetime heuristic (SpecHeuristic).                   *)

HeuristicCalled == called = "_process_datetime_columns"

\* The names of the inputs that, in lower case, contain date, time,
\* timestamp, _at, _date or _time: created_at, PubDate, full_time (not
\* value, not tags).
NamesWithDatePattern == {N_created_at, N_PubDate, N_full_time}

\* As many columns, under the same names in the same order, of as many rows.
ShapePreserved ==
    /\ Len(ret_df.columns) = Len(arg.columns)
    /\ \A i \in 1..Len(arg.columns) :
           /\ ret_df.columns[i].name = arg.columns[i].name
           /\ Len(ret_df.columns[i].values) = Len(arg.columns[i].values)

RefusedKinds == {"bool", "timedelta64[ns]"}

Parses(c) == c[1] \in {"ts", "num"} \/ (c[1] = "str" /\ c[2] \in DateStrings)

-----------------------------------------------------------------------------
(* Properties of the visualizer (SpecVisualizer).                          *)

VisualizerCalled == called = "create_visualizations"

\* The scatter plot drawn.
ScatterShown == VisualizerCalled /\ Shown("altair_chart", "scatter")
ScatterChart == ValueShown("scatter")

\* The rows of the frame; those with a value in both columns of a plot.
AllRows == 1..len(arg)
CompleteRows(chart) ==
    {r \in AllRows : /\ ~IsNull(arg.columns[chart.x].values[r])
                     /\ ~IsNull(arg.columns[chart.y].values[r])}

\* A run of the scatter plot after a run of it with the same two columns
\* draws the same page.
ScatterReproduced ==
    (/\ VisualizerCalled /\ viz.viz_type = "Scatter Plot"
     /\ viz'.viz_type = "Scatter Plot"
     /\ viz'.col = viz.col /\ viz'.col2 = viz.col2) =>
        ui' = ui

\* rows: the rows plotted; plotted: the set of them; of: the rows the plot
\* is drawn from.  More than 5000 of these: exactly 5000 different ones
\* are plotted; at most 5000: every one is plotted, once, in the frame's
\* order.
SampledFrom(rows, plotted, of) ==
    IF Cardinality(of) > 5000
    THEN /\ Len(rows) = 5000
         /\ Cardinality(plotted) = 5000
         /\ plotted \subseteq of
    ELSE /\ plotted = of
         /\ Len(rows) = Cardinality(of)
         /\ \A k \in 1..(Len(rows) - 1) : rows[k] < rows[k + 1]

ScatterOfInputRows ==
    ScatterShown =>
        \E chart \in {ScatterChart} :
          \E plotted \in {{chart.rows[k] : k \in 1..Len(chart.rows)}} :
            \E of \in {AllRows} :
                SampledFrom(chart.rows, plotted, of)

ScatterOfCompleteRows ==
    ScatterShown =>
        \E chart \in {ScatterChart} :
          \E plotted \in {{chart.rows[k] : k \in 1..Len(chart.rows)}} :
            \E of \in {CompleteRows(chart)} :
                SampledFrom(chart.rows, plotted, of)

\* C13 (as stated): of an input of more than 5000 rows exactly 5000 rows
\* are plotted, the same ones whenever the plot is drawn again on the same
\* input (fixed seed); of an input of at most 5000 rows every row is
\* plotted, unsampled.
C13_SampleOfInputRows ==
    [][ScatterOfInputRows' /\ ScatterReproduced]_vars

\* C13 (amended): the same, of the rows that have a value in both columns
\* of the plot (the others are dropped before the rows are counted).
C13_SampleOfCompleteRows ==
    [][ScatterOfCompleteRows' /\ ScatterReproduced]_vars

\* 5000 rows sampled from a frame that has rows with a null as well, in a
\* run that found numpy's generator in another state than the seed's.
C13_Witness ==
    /\ ScatterShown
    /\ Shown("info", "sampling")
    /\ Len(ScatterChart.rows) = 5000
    /\ Cardinality(CompleteRows(ScatterChart)) > 5000
    /\ Cardinality(CompleteRows(ScatterChart)) < len(arg)
    /\ viz.np_random # 42

\* C17: the timeline sums only over a chosen numeric column: with the
\* mode "Somar Valores", whatever the dataset (one with datetime columns
\* and no numeric column in particular), the run never groups and sums by
\* a value column that is None.
C17_SumHasValueColumn ==
    (VisualizerCalled /\ viz.viz_type = "Linha Temporal" /\ viz.mode = "Somar Valores") =>
        /\ raised # "KeyError"
        /\ Shown("altair_chart", "timeline") =>
               /\ ValueShown("timeline").y \in 1..Len(arg.columns)
               /\ arg.columns[ValueShown("timeline").y].kind \in DeclaredNumber

=============================================================================
